---------------------------- MODULE Spec2Model ----------------------------
(***************************************************************************)
(* The photo-gallery slideshow of js/photos.js as a state machine.         *)
(*                                                                         *)
(* Program state: the module-level variables currentAlbum and currentIndex *)
(* and the parts of the page the script writes: the src of #photo, the     *)
(* text of #description and #counter, and the set of album links carrying  *)
(* the class "active".  The catalog (the global `albums`) and the page are *)
(* inputs fixed for a run and drawn in Init.                               *)
(*                                                                         *)
(* Page model: the album selectors are the a.album-link elements, one per  *)
(* item of the #albums list, in document order; `links` holds their        *)
(* data-album attributes.  querySelectorAll('.album-link') ranges over all *)
(* of them and querySelector('#albums li:first-child a') is the first one. *)
(*                                                                         *)
(* A handler that throws (a TypeError on undefined or null) stops there;   *)
(* what it assigned before the throw stays assigned.                       *)
(***************************************************************************)
EXTENDS Integers, Sequences, FiniteSets

\* ------------------------------------------------------------- bounds
MaxPhotos == 3
MaxLinks == 2
\* the LRU cache: capacities 1..MaxCapacity, keys 1..MaxKey, values 0..MaxValue
MaxCapacity == 2
MaxKey == 3
MaxValue == 1

\* ------------------------------------------------------------- values
AlbumNames == <<"A", "B">>
\* data-album attributes a link (or a caller of selectAlbum) may carry; "Z"
\* is never a key of the catalog
LinkNames == {"A", "B", "Z"}
Keys == {"ArrowRight", "ArrowLeft", "Enter"}
\* Object.keys(albums)[0] of an empty catalog
Undefined == "undefined"
\* the result of x % 0 and of arithmetic on it.  The numbers the script
\* computes are indices, lengths and currentIndex - 1, all at least -1, so
\* this value stands for nothing else.
NaN == -2
\* The first of the elements updateView writes (in the order it writes
\* them) that is not in the page; "none": all three are there.  A missing
\* element makes getElementById return null and the write throw, so only the
\* first missing one matters.
Missing == {"none", "photo", "description", "counter"}

VARIABLES
    albums,        \* the catalog: sequence of [name, length] in key order
    links,         \* the page's album links: sequence of data-album values
    missing,       \* the first of #photo, #description, #counter not in the page
    currentAlbum,  \* photos.js:1
    currentIndex,  \* photos.js:2
    photoSrc,      \* document.getElementById('photo').src
    description,   \* document.getElementById('description').textContent
    counter,       \* document.getElementById('counter').textContent
    active,        \* positions in links of the links with class "active"
    loaded,        \* window.onload has run
    last,          \* the last handler run: event, operation, argument, outcome
    pre,           \* the program state before the last handler
    pre2,          \* the operation before the last one, and the index before it
    run,           \* the current run of one repeated navigation operation
    capacity,      \* LRUCache::capacity (0: no cache constructed)
    nodes,         \* the nodes of cacheList: node -> [key, value]
    cacheList,     \* LRUCache::cacheList: its nodes, front (MRU) first
    cacheMap,      \* LRUCache::cacheMap: key -> iterator (a node)
    recency,       \* the keys accessed (put, or found by get), latest first
    putValue,      \* key -> value of its latest put, NotFound once evicted
    cacheLast,     \* the last cache call: op, key, value, result, evicted keys
    cachePre       \* entries and recency before the last cache call

env == <<albums, links, missing>>
prog == <<currentAlbum, currentIndex, photoSrc, description, counter, active>>
hist == <<last, pre, pre2, run>>
galleryVars == <<albums, links, missing, currentAlbum, currentIndex, photoSrc,
                 description, counter, active, loaded, last, pre, pre2, run>>
cacheVars == <<capacity, nodes, cacheList, cacheMap, recency, putValue,
               cacheLast, cachePre>>
vars == <<albums, links, missing, currentAlbum, currentIndex, photoSrc,
          description, counter, active, loaded, last, pre, pre2, run,
          capacity, nodes, cacheList, cacheMap, recency, putValue,
          cacheLast, cachePre>>

\* ------------------------------------------------------------ catalog
\* Object.keys(albums)
ObjectKeys == [i \in 1..Len(albums) |-> albums[i].name]

\* albums.hasOwnProperty(albumName)
HasOwnProperty(albumName) == \E i \in 1..Len(albums) : albums[i].name = albumName

\* albums[name].length, for a key of the catalog
AlbumLength(name) ==
    LET i == CHOOSE j \in 1..Len(albums) : albums[j].name = name
    IN  albums[i].length

\* albums[name][i]: a photo record, or undefined (<<>>) out of range
PhotoAt(name, i) ==
    IF i \in 0..(AlbumLength(name) - 1)
    THEN [src |-> <<name, i>>, description |-> <<name, i>>]
    ELSE [src |-> <<>>, description |-> <<>>]

IsUndefinedPhoto(p) == p.src = <<>>

\* JavaScript's a % b on the values the script computes
JsRem(a, b) ==
    IF a = NaN \/ b = NaN \/ b = 0 THEN NaN
    ELSE IF a >= 0 THEN a % b ELSE 0 - ((0 - a) % b)

\* JavaScript's a + b with NaN
JsAdd(a, b) == IF a = NaN \/ b = NaN THEN NaN ELSE a + b

\* `${currentIndex + 1}/${albums[currentAlbum].length}`
CounterText(index, total) == <<JsAdd(index, 1), total>>


\* ------------------------------------------------------- the program
\* The state a function of the script reads and writes, as one record:
\* the two module variables, the page's outputs, whether the running handler
\* has thrown, and the page writes it has made so far.
World ==
    [currentAlbum |-> currentAlbum, currentIndex |-> currentIndex,
     photoSrc |-> photoSrc, description |-> description, counter |-> counter,
     active |-> active, threw |-> FALSE, writes |-> <<>>]

Throw(w) == [w EXCEPT !.threw = TRUE]

\* updateView moving on to the next photo once it has rendered this one
updateViewAdvancing(w) ==
    IF w.threw THEN w
    ELSE IF ~HasOwnProperty(w.currentAlbum) THEN Throw(w)
    ELSE LET photo == PhotoAt(w.currentAlbum, w.currentIndex)
             total == AlbumLength(w.currentAlbum)
         IN  IF IsUndefinedPhoto(photo) \/ missing # "none" THEN Throw(w)
             ELSE [w EXCEPT !.photoSrc = photo.src,
                            !.description = photo.description,
                            !.counter = CounterText(w.currentIndex, total),
                            !.writes = @ \o <<"photo", "description", "counter">>,
                            !.currentIndex = JsRem(JsAdd(w.currentIndex, 1), total)]

\* photos.js:4-9.  albums[currentAlbum] of a non-key is undefined and
\* indexing it throws; photo.src of an undefined photo throws; a write to
\* an element that is not in the page throws.
updateView(w) ==
    IF w.threw THEN w
    ELSE IF ~HasOwnProperty(w.currentAlbum) THEN Throw(w)
    ELSE LET photo == PhotoAt(w.currentAlbum, w.currentIndex)
             w1 == [w EXCEPT !.photoSrc = photo.src,
                             !.writes = Append(@, "photo")]
             w2 == [w1 EXCEPT !.description = photo.description,
                              !.writes = Append(@, "description")]
             w3 == [w2 EXCEPT !.counter = CounterText(w.currentIndex,
                                              AlbumLength(w.currentAlbum)),
                              !.writes = Append(@, "counter")]
         IN  IF IsUndefinedPhoto(photo) \/ missing = "photo" THEN Throw(w)
             ELSE IF missing = "description" THEN Throw(w1)
             ELSE IF missing = "counter" THEN Throw(w2)
             ELSE w3

\* nextPhoto without the wrap: the index runs past the last photo
nextPhotoNoWrap(w) ==
    IF w.threw THEN w
    ELSE IF ~HasOwnProperty(w.currentAlbum) THEN Throw(w)
    ELSE updateView([w EXCEPT !.currentIndex = JsAdd(w.currentIndex, 1)])

\* nextPhoto stopping at the last photo instead of wrapping to the first
nextPhotoClamp(w) ==
    IF w.threw THEN w
    ELSE IF ~HasOwnProperty(w.currentAlbum) THEN Throw(w)
    ELSE LET total == AlbumLength(w.currentAlbum)
         IN  updateView([w EXCEPT !.currentIndex =
                 IF JsAdd(w.currentIndex, 1) >= total
                 THEN w.currentIndex ELSE JsAdd(w.currentIndex, 1)])

\* nextPhoto stepping two photos at a time
nextPhotoByTwo(w) ==
    IF w.threw THEN w
    ELSE IF ~HasOwnProperty(w.currentAlbum) THEN Throw(w)
    ELSE LET total == AlbumLength(w.currentAlbum)
         IN  updateView([w EXCEPT !.currentIndex =
                                      JsRem(JsAdd(w.currentIndex, 2), total)])

\* photos.js:12-17
nextPhoto(w) ==
    IF w.threw THEN w
    ELSE IF ~HasOwnProperty(w.currentAlbum) THEN Throw(w)
    ELSE LET total == AlbumLength(w.currentAlbum)
         IN  updateView([w EXCEPT !.currentIndex =
                                      JsRem(JsAdd(w.currentIndex, 1), total)])

\* prevPhoto without "+ total": % keeps the sign of -1
prevPhotoNoTotal(w) ==
    IF w.threw THEN w
    ELSE IF ~HasOwnProperty(w.currentAlbum) THEN Throw(w)
    ELSE LET total == AlbumLength(w.currentAlbum)
         IN  updateView([w EXCEPT !.currentIndex =
                                      JsRem(JsAdd(w.currentIndex, -1), total)])

\* prevPhoto stopping at the first photo instead of wrapping to the last
prevPhotoClamp(w) ==
    IF w.threw THEN w
    ELSE IF ~HasOwnProperty(w.currentAlbum) THEN Throw(w)
    ELSE updateView([w EXCEPT !.currentIndex =
             IF w.currentIndex = 0 THEN 0 ELSE JsAdd(w.currentIndex, -1)])

\* photos.js:19-23
prevPhoto(w) ==
    IF w.threw THEN w
    ELSE IF ~HasOwnProperty(w.currentAlbum) THEN Throw(w)
    ELSE LET total == AlbumLength(w.currentAlbum)
         IN  updateView([w EXCEPT !.currentIndex =
                          JsRem(JsAdd(JsAdd(w.currentIndex, -1), total), total)])

\* document.querySelectorAll('.album-link')
AlbumLinks == 1..Len(links)

\* document.querySelector(`.album-link[data-album="${albumName}"]`): the
\* first match in document order, 0 for null
SelectedLink(albumName) ==
    IF \E i \in AlbumLinks : links[i] = albumName
    THEN CHOOSE i \in AlbumLinks :
             /\ links[i] = albumName
             /\ \A j \in AlbumLinks : links[j] = albumName => i <= j
    ELSE 0

\* selectAlbum leaving the active class where it is
RemoveActiveFromNone(w) == w

\* photos.js:28-30: classList.remove('active') on every album link
RemoveActiveFromAll(w) ==
    [w EXCEPT !.active = @ \ AlbumLinks,
              !.writes = @ \o [i \in AlbumLinks |-> "remove"]]

\* photos.js:33-39
AddActiveToSelected(w, albumName) ==
    LET selectedLink == SelectedLink(albumName)
    IN  IF selectedLink # 0
        THEN [w EXCEPT !.active = @ \cup {selectedLink},
                       !.writes = Append(@, "add")]
        ELSE w

\* selectAlbum rendering before it switches to the album selected
selectAlbumRenderFirst(w, albumName) ==
    IF w.threw THEN w
    ELSE IF HasOwnProperty(albumName)
    THEN LET w1 == updateView(AddActiveToSelected(RemoveActiveFromAll(w),
                                                   albumName))
         IN  [w1 EXCEPT !.currentAlbum = albumName, !.currentIndex = 0]
    ELSE w

\* selectAlbum without the hasOwnProperty guard
selectAlbumUnguarded(w, albumName) ==
    IF w.threw THEN w
    ELSE LET w1 == AddActiveToSelected(RemoveActiveFromAll(w), albumName)
         IN  updateView([w1 EXCEPT !.currentAlbum = albumName,
                                   !.currentIndex = 0])

\* selectAlbum returning early when the album is already the current one
selectAlbumSkipCurrent(w, albumName) ==
    IF w.threw \/ albumName = w.currentAlbum THEN w
    ELSE IF HasOwnProperty(albumName)
    THEN LET w1 == AddActiveToSelected(RemoveActiveFromAll(w), albumName)
         IN  updateView([w1 EXCEPT !.currentAlbum = albumName,
                                   !.currentIndex = 0])
    ELSE w

\* photos.js:25-45
selectAlbum(w, albumName) ==
    IF w.threw THEN w
    ELSE IF HasOwnProperty(albumName)
    THEN LET w1 == AddActiveToSelected(RemoveActiveFromAll(w), albumName)
         IN  updateView([w1 EXCEPT !.currentAlbum = albumName,
                                   !.currentIndex = 0])
    ELSE w

\* the keydown listener taking every key but ArrowRight for ArrowLeft
onKeydownNoLeftTest(w, key) ==
    IF key = "ArrowRight" THEN nextPhoto(w) ELSE prevPhoto(w)

\* photos.js:48-54
onKeydown(w, key) ==
    IF key = "ArrowRight" THEN nextPhoto(w)
    ELSE IF key = "ArrowLeft" THEN prevPhoto(w)
    ELSE w

\* photos.js:57-60
onClick(w, i) == selectAlbum(w, links[i])

\* document.querySelector('#albums li:first-child a'), 0 for null
FirstAlbumLink == IF Len(links) > 0 THEN 1 ELSE 0

\* photos.js:63-70
onload(w) ==
    LET w1 == updateView(w)
    IN  IF w1.threw THEN w1
        ELSE IF FirstAlbumLink # 0
        THEN [w1 EXCEPT !.active = @ \cup {FirstAlbumLink},
                        !.writes = Append(@, "add")]
        ELSE w1

\* ------------------------------------------------------ initial state
\* The catalogs: up to two albums, keyed "A", "B" in that order, of 0 to
\* MaxPhotos photos each.  The empty catalog and the empty album are inputs
\* the script does not rule out.
Catalogs ==
    { [i \in 1..n |-> [name |-> AlbumNames[i], length |-> f[i]]] :
        n \in 0..Len(AlbumNames), f \in [1..Len(AlbumNames) -> 0..MaxPhotos] }

\* The pages: up to MaxLinks album links in any order, one per data-album
\* value; a link may name an album the catalog does not hold
Pages ==
    { p \in UNION { [1..n -> LinkNames] : n \in 0..MaxLinks } :
        \A i, j \in DOMAIN p : p[i] = p[j] => i = j }

NoHandler ==
    [event |-> "none", op |-> "none", arg |-> "", link |-> 0,
     threw |-> FALSE, writes |-> <<>>]

\* the program state, as the history variables keep it
Snapshot(w) ==
    [currentAlbum |-> w.currentAlbum, currentIndex |-> w.currentIndex,
     photoSrc |-> w.photoSrc, description |-> w.description,
     counter |-> w.counter, active |-> w.active]

\* pre2 keeps the earlier operation only when it is a navigation or a render
NoEarlier == [op |-> "none", currentAlbum |-> "", currentIndex |-> 0]

NoRun == [op |-> "none", start |-> 0, n |-> 0]

\* the article's LRUCache is no part of the page's script: in the gallery
\* no cache is constructed
NoCacheCall == [op |-> "none", key |-> 0, value |-> 0, result |-> 0, evicted |-> {}]

NoCache ==
    /\ capacity = 0
    /\ nodes = <<>>
    /\ cacheList = <<>>
    /\ cacheMap = <<>>
    /\ recency = <<>>
    /\ putValue = <<>>
    /\ cacheLast = NoCacheCall
    /\ cachePre = [entries |-> <<>>, recency |-> <<>>]

\* photos.js:1-2 and the page as the browser parsed it
Init ==
    /\ NoCache
    /\ albums \in Catalogs
    /\ links \in Pages
    /\ missing \in Missing
    /\ currentAlbum = IF Len(albums) > 0 THEN ObjectKeys[1] ELSE Undefined
    /\ currentIndex = 0
    /\ photoSrc = <<>>
    /\ description = <<>>
    /\ counter = <<>>
    /\ active = {}
    /\ loaded = FALSE
    /\ last = NoHandler
    /\ pre = Snapshot(World)
    /\ pre2 = NoEarlier
    /\ run = NoRun

\* ------------------------------------------------------------ actions
\* the length of the current album, 0 when there is none
Total == IF HasOwnProperty(currentAlbum) THEN AlbumLength(currentAlbum) ELSE 0

NavOps == {"nextPhoto", "prevPhoto"}

\* One handler run to completion (or to its throw): w is the world it
\* leaves.  The history variables record it.
Handle(event, op, arg, link, w) ==
    /\ currentAlbum' = w.currentAlbum
    /\ currentIndex' = w.currentIndex
    /\ photoSrc' = w.photoSrc
    /\ description' = w.description
    /\ counter' = w.counter
    /\ active' = w.active
    /\ last' = [event |-> event, op |-> op, arg |-> arg, link |-> link,
                threw |-> w.threw, writes |-> w.writes]
    /\ pre' = Snapshot(World)
    /\ pre2' = IF last.op \in NavOps \cup {"updateView"}
               THEN [op |-> last.op, currentAlbum |-> pre.currentAlbum,
                     currentIndex |-> pre.currentIndex]
               ELSE NoEarlier
    /\ run' = IF op \in NavOps
              THEN IF run.op = op /\ run.n < Total
                   THEN [run EXCEPT !.n = @ + 1]
                   ELSE [op |-> op, start |-> currentIndex, n |-> 1]
              ELSE NoRun
    /\ UNCHANGED env
    /\ UNCHANGED cacheVars

\* a call of selectAlbum(albumName) from the page
CallSelectAlbum(albumName) ==
    /\ Handle("call", "selectAlbum", albumName, 0, selectAlbum(World, albumName))
    /\ UNCHANGED loaded

\* a call of updateView() from the page
CallUpdateView ==
    /\ Handle("call", "updateView", "", 0, updateView(World))
    /\ UNCHANGED loaded

\* the keydown listener, photos.js:48-54
KeyDown(key) ==
    /\ Handle(key,
              IF key = "ArrowRight" THEN "nextPhoto"
              ELSE IF key = "ArrowLeft" THEN "prevPhoto" ELSE "none",
              "", 0, onKeydown(World, key))
    /\ UNCHANGED loaded

\* the click listener of album link i, photos.js:56-61
ClickAlbumLink(i) ==
    /\ Handle("click", "selectAlbum", links[i], i, onClick(World, i))
    /\ UNCHANGED loaded

\* window.onload, photos.js:63-70; the browser fires it once
OnLoad ==
    /\ ~loaded
    /\ loaded' = TRUE
    /\ Handle("load", "onload", "", 0, onload(World))

Next ==
    \/ \E albumName \in LinkNames : CallSelectAlbum(albumName)
    \/ CallUpdateView
    \/ \E key \in Keys : KeyDown(key)
    \/ \E i \in AlbumLinks : ClickAlbumLink(i)
    \/ OnLoad

Spec == Init /\ [][Next]_vars

\* ---------------------------------------------------------- LRUCache
\* The C++ class of the article (photos.js:167-207).  A std::list node is a
\* number; an iterator is the node it points to, and stays valid while the
\* node is in the list.
CacheKeys == 1..MaxKey
CacheValues == 0..MaxValue
\* get's result for a key that is not in the cache, photos.js:181
NotFound == -1

\* the object: its list, the nodes' pairs and its map, with the value the
\* last call returned
Cache ==
    [nodes |-> nodes, cacheList |-> cacheList, cacheMap |-> cacheMap,
     result |-> 0]

\* cacheMap.find(key) != cacheMap.end()
Found(c, key) == key \in DOMAIN c.cacheMap

\* cacheList.splice(cacheList.begin(), cacheList, it): node it moves to
\* the front, the others keep their order
Splice(list, it) == <<it>> \o SelectSeq(list, LAMBDA n : n # it)

\* the node a push_front allocates: one that is not in use
NewNode(c) ==
    CHOOSE n \in 1..(Cardinality(DOMAIN c.nodes) + 1) : n \notin DOMAIN c.nodes

\* f without x in its domain
Without(f, x) == [y \in DOMAIN f \ {x} |-> f[y]]

\* f with x -> v added to (or replaced in) its domain
With(f, x, v) == [y \in DOMAIN f \cup {x} |-> IF y = x THEN v ELSE f[y]]

\* get returning the value without moving the node to the front
getNoSplice(c, key) ==
    IF ~Found(c, key)
    THEN [c EXCEPT !.result = NotFound]
    ELSE [c EXCEPT !.result = c.nodes[c.cacheMap[key]].value]

\* photos.js:179-186
get(c, key) ==
    IF ~Found(c, key)
    THEN [c EXCEPT !.result = NotFound]
    ELSE [c EXCEPT !.cacheList = Splice(c.cacheList, c.cacheMap[key]),
                   !.result = c.nodes[c.cacheMap[key]].value]

\* the eviction taking the front node (the most recently used) instead
EvictFrontIfFull(c) ==
    IF Len(c.cacheList) = capacity
    THEN LET front == c.cacheList[1]
             firstKey == c.nodes[front].key
         IN  [c EXCEPT !.cacheList = SubSeq(c.cacheList, 2, Len(c.cacheList)),
                       !.nodes = Without(c.nodes, front),
                       !.cacheMap = Without(c.cacheMap, firstKey)]
    ELSE c

\* the eviction waiting until the list is over capacity
EvictIfOverFull(c) ==
    IF Len(c.cacheList) > capacity
    THEN LET back == c.cacheList[Len(c.cacheList)]
             lastKey == c.nodes[back].key
         IN  [c EXCEPT !.cacheList = SubSeq(c.cacheList, 1, Len(c.cacheList) - 1),
                       !.nodes = Without(c.nodes, back),
                       !.cacheMap = Without(c.cacheMap, lastKey)]
    ELSE c

\* the eviction without cacheMap.erase(lastKey)
EvictNoErase(c) ==
    IF Len(c.cacheList) = capacity
    THEN LET back == c.cacheList[Len(c.cacheList)]
         IN  [c EXCEPT !.cacheList = SubSeq(c.cacheList, 1, Len(c.cacheList) - 1),
                       !.nodes = Without(c.nodes, back)]
    ELSE c

\* photos.js:196-201: with the list at capacity, the back node goes and its
\* key leaves the map
EvictIfFull(c) ==
    IF Len(c.cacheList) = capacity
    THEN LET back == c.cacheList[Len(c.cacheList)]
             lastKey == c.nodes[back].key
         IN  [c EXCEPT !.cacheList = SubSeq(c.cacheList, 1, Len(c.cacheList) - 1),
                       !.nodes = Without(c.nodes, back),
                       !.cacheMap = Without(c.cacheMap, lastKey)]
    ELSE c

\* photos.js:203-205
PushFront(c, key, value) ==
    LET n == NewNode(c)
    IN  [c EXCEPT !.nodes = With(c.nodes, n, [key |-> key, value |-> value]),
                  !.cacheList = <<n>> \o c.cacheList,
                  !.cacheMap = With(c.cacheMap, key, n)]

\* put testing the capacity before it looks the key up
putCapacityFirst(c, key, value) ==
    LET c1 == EvictIfFull(c)
    IN  IF Found(c1, key)
        THEN [c1 EXCEPT !.cacheList = Splice(c1.cacheList, c1.cacheMap[key]),
                        !.nodes[c1.cacheMap[key]].value = value]
        ELSE PushFront(c1, key, value)

\* photos.js:188-206
put(c, key, value) ==
    IF Found(c, key)
    THEN [c EXCEPT !.cacheList = Splice(c.cacheList, c.cacheMap[key]),
                   !.nodes[c.cacheMap[key]].value = value]
    ELSE PushFront(EvictIfFull(c), key, value)

\* the {key, value} pairs of the list, front first
Entries(c) ==
    [i \in 1..Len(c.cacheList) |->
        <<c.nodes[c.cacheList[i]].key, c.nodes[c.cacheList[i]].value>>]

\* the keys of the map
MapKeys(c) == DOMAIN c.cacheMap

\* key moved to the front of the recency order
Touch(order, key) == <<key>> \o SelectSeq(order, LAMBDA k : k # key)

\* the gallery's variables, unused by the cache
NoGallery ==
    /\ albums = <<>>
    /\ links = <<>>
    /\ missing = "none"
    /\ currentAlbum = Undefined
    /\ currentIndex = 0
    /\ photoSrc = <<>>
    /\ description = <<>>
    /\ counter = <<>>
    /\ active = {}
    /\ loaded = FALSE
    /\ last = NoHandler
    /\ pre = Snapshot(World)
    /\ pre2 = NoEarlier
    /\ run = NoRun

\* LRUCache(int cap), photos.js:177, for the capacities 1..MaxCapacity
InitLRU ==
    /\ NoGallery
    /\ capacity \in 1..MaxCapacity
    /\ nodes = <<>>
    /\ cacheList = <<>>
    /\ cacheMap = <<>>
    /\ recency = <<>>
    /\ putValue = [k \in CacheKeys |-> NotFound]
    /\ cacheLast = NoCacheCall
    /\ cachePre = [entries |-> <<>>, recency |-> <<>>]

\* One call, c the object it leaves; the history variables record it.
CacheCall(op, key, value, c) ==
    /\ nodes' = c.nodes
    /\ cacheList' = c.cacheList
    /\ cacheMap' = c.cacheMap
    /\ cacheLast' = [op |-> op, key |-> key, value |-> value,
                     result |-> c.result,
                     evicted |-> MapKeys(Cache) \ MapKeys(c)]
    /\ cachePre' = [entries |-> Entries(Cache), recency |-> recency]
    /\ UNCHANGED capacity
    /\ UNCHANGED galleryVars

\* cache.get(key)
Get(key) ==
    /\ CacheCall("get", key, 0, get(Cache, key))
    /\ recency' = IF putValue[key] # NotFound THEN Touch(recency, key)
                  ELSE recency
    /\ UNCHANGED putValue

\* cache.put(key, value)
Put(key, value) ==
    /\ CacheCall("put", key, value, put(Cache, key, value))
    /\ recency' = Touch(recency, key)
    /\ putValue' = [k \in CacheKeys |->
                      IF k = key THEN value
                      ELSE IF k \in MapKeys(Cache) \ MapKeys(put(Cache, key, value))
                      THEN NotFound
                      ELSE putValue[k]]

NextLRU ==
    \/ \E key \in CacheKeys : Get(key)
    \/ \E key \in CacheKeys, value \in CacheValues : Put(key, value)

SpecLRU == InitLRU /\ [][NextLRU]_vars

\* ------------------------------------------------------------ claims
AllAlbumsNonEmpty == \A i \in 1..Len(albums) : albums[i].length > 0

IndexInRange ==
    /\ HasOwnProperty(currentAlbum)
    /\ currentIndex \in 0..(AlbumLength(currentAlbum) - 1)

\* C1 as stated: for a catalog in which every album is non-empty, in every
\* reachable state currentAlbum is a key of the catalog and
\* 0 <= currentIndex < albums[currentAlbum].length.  The catalog with no
\* album at all is such a catalog, and there currentAlbum is undefined.
C1_AsStated == AllAlbumsNonEmpty => IndexInRange

\* C1 amended: for a catalog of at least one album in which every album is
\* non-empty, in every state reachable by keydown, click, selectAlbum (valid
\* or not), updateView and onload, currentAlbum is a key of the catalog and
\* 0 <= currentIndex < albums[currentAlbum].length.
C1_IndexInRange == (Len(albums) > 0 /\ AllAlbumsNonEmpty) => IndexInRange

\* C1's case: retreat has wrapped from index 0 to the last photo of a second
\* album chosen by selectAlbum
C1_Witness ==
    /\ Len(albums) = 2 /\ AllAlbumsNonEmpty
    /\ last.op = "prevPhoto" /\ pre.currentIndex = 0
    /\ currentAlbum = ObjectKeys[2] /\ currentIndex = Total - 1 /\ Total > 1

\* C2 as stated: when window.onload completes, currentAlbum is the first key
\* of the catalog, currentIndex is 0 and the counter reads
\* "1/<length of the first album>", whatever keydown events came before.
\* Stated for the pages and catalogs where onload itself cannot fail (every
\* element present, at least one album, no empty album) and for runs where
\* the album is still the first one when onload starts.
C2_InitializeResetsState ==
    ( /\ last.event = "load"
      /\ missing = "none" /\ Len(albums) > 0 /\ AllAlbumsNonEmpty
      /\ pre.currentAlbum = ObjectKeys[1] )
    => /\ currentAlbum = ObjectKeys[1]
       /\ currentIndex = 0
       /\ counter = <<1, AlbumLength(ObjectKeys[1])>>

\* C3: selectAlbum(albumId) with albumId a key of the catalog ends with
\* currentAlbum = albumId and currentIndex = 0, whatever the album and index
\* before (the same album included).
C3_SelectValidResets ==
    (last.op = "selectAlbum" /\ HasOwnProperty(last.arg))
    => (currentAlbum = last.arg /\ currentIndex = 0)

\* C3's case: the album selected is the current one, at an index above 0
C3_Witness ==
    /\ last.op = "selectAlbum" /\ HasOwnProperty(last.arg)
    /\ pre.currentAlbum = last.arg /\ pre.currentIndex > 0
    /\ currentIndex = 0

\* C4: selectAlbum(albumId) with albumId no key of the catalog changes
\* neither currentAlbum nor currentIndex and writes nothing to the page:
\* image, description, counter and every link's active class stay as they
\* were.
C4_SelectInvalidNoOp ==
    (last.op = "selectAlbum" /\ ~HasOwnProperty(last.arg))
    => /\ Snapshot(World) = pre
       /\ last.writes = <<>>
       /\ ~last.threw

\* C4's case: a click on a link whose data-album is no key, with a photo
\* shown at an index above 0 and a link active
C4_Witness ==
    /\ last.event = "click" /\ ~HasOwnProperty(links[last.link])
    /\ pre.currentIndex > 0 /\ pre.active # {} /\ pre.counter # <<>>
    /\ currentIndex = pre.currentIndex

\* the length of the album that was current before the last handler
PreTotal ==
    IF HasOwnProperty(pre.currentAlbum) THEN AlbumLength(pre.currentAlbum) ELSE 0

\* C5: where the current album has total > 0 photos, nextPhoto sets
\* currentIndex to (currentIndex + 1) mod total: one more below the last
\* photo, and 0 from the last photo.
C5_AdvanceWraps ==
    (last.op = "nextPhoto" /\ PreTotal > 0)
    => /\ currentIndex = (pre.currentIndex + 1) % PreTotal
       /\ pre.currentIndex < PreTotal - 1 => currentIndex = pre.currentIndex + 1
       /\ pre.currentIndex = PreTotal - 1 => currentIndex = 0
       /\ currentAlbum = pre.currentAlbum

\* C5's case: nextPhoto at the last photo of an album of several
C5_Witness ==
    /\ last.op = "nextPhoto" /\ PreTotal > 1
    /\ pre.currentIndex = PreTotal - 1 /\ currentIndex = 0

\* C6: where the current album has total > 0 photos, prevPhoto sets
\* currentIndex to (currentIndex - 1 + total) mod total: one less above the
\* first photo, total - 1 from the first photo, and never a negative index.
C6_RetreatWraps ==
    (last.op = "prevPhoto" /\ PreTotal > 0)
    => /\ currentIndex = (pre.currentIndex - 1 + PreTotal) % PreTotal
       /\ pre.currentIndex > 0 => currentIndex = pre.currentIndex - 1
       /\ pre.currentIndex = 0 => currentIndex = PreTotal - 1
       /\ currentIndex >= 0
       /\ currentAlbum = pre.currentAlbum

\* C6's case: prevPhoto at the first photo of an album of several
C6_Witness ==
    /\ last.op = "prevPhoto" /\ PreTotal > 1
    /\ pre.currentIndex = 0 /\ currentIndex = PreTotal - 1
    /\ counter = <<PreTotal, PreTotal>>

\* C7: in a non-empty album of total photos, total applications in a row of
\* nextPhoto (or of prevPhoto), from any index, bring currentIndex back to
\* where the run started, and no fewer applications do; so the run visits
\* every index of the album before it returns.
C7_CycleOfLengthTotal ==
    (run.op \in NavOps /\ Total > 0)
    => /\ run.n \in 1..Total
       /\ run.n = Total => currentIndex = run.start
       /\ run.n < Total => currentIndex # run.start

\* C7's case: a full run of prevPhoto in an album of MaxPhotos photos,
\* started above the first photo
C7_Witness ==
    /\ run.op = "prevPhoto" /\ Total = MaxPhotos /\ run.n = Total
    /\ run.start > 0 /\ currentIndex = run.start

\* C8: with total >= 1, nextPhoto right after prevPhoto, and prevPhoto right
\* after nextPhoto, leave currentIndex and currentAlbum as they were before
\* the pair.
C8_AdvanceRetreatInverse ==
    ( /\ Total >= 1
      /\ \/ last.op = "prevPhoto" /\ pre2.op = "nextPhoto"
         \/ last.op = "nextPhoto" /\ pre2.op = "prevPhoto" )
    => /\ currentIndex = pre2.currentIndex
       /\ currentAlbum = pre2.currentAlbum

\* C8's case: nextPhoto wrapped from the last photo to the first and
\* prevPhoto wrapped back
C8_Witness ==
    /\ last.op = "prevPhoto" /\ pre2.op = "nextPhoto" /\ Total > 1
    /\ pre2.currentIndex = Total - 1 /\ pre.currentIndex = 0
    /\ currentIndex = Total - 1

\* C9: updateView reads the state and never changes it, and is idempotent:
\* a call leaves currentAlbum and currentIndex (and the active links) as
\* they were, and a call that follows another call with nothing in between
\* leaves image, description and counter as the first call left them.
C9_RenderIdempotent ==
    /\ last.op = "updateView"
       => /\ currentAlbum = pre.currentAlbum
          /\ currentIndex = pre.currentIndex
          /\ active = pre.active
    /\ (last.op = "updateView" /\ pre2.op = "updateView")
       => /\ photoSrc = pre.photoSrc
          /\ description = pre.description
          /\ counter = pre.counter

\* C9's case: two calls of updateView in a row, on a photo above index 0,
\* both rendering all three outputs
C9_Witness ==
    /\ last.op = "updateView" /\ pre2.op = "updateView"
    /\ ~last.threw /\ currentIndex > 0
    /\ counter = <<currentIndex + 1, Total>>

\* C10: after selectAlbum(albumId) with albumId a key of the catalog and a
\* link for albumId in the page, exactly one album link is active: the link
\* of albumId, which is currentAlbum.  Every link active before, the one
\* onload activated included, is inactive unless it is that link.
C10_OneActiveSelector ==
    ( /\ last.op = "selectAlbum" /\ HasOwnProperty(last.arg)
      /\ SelectedLink(last.arg) # 0 )
    => /\ active = {SelectedLink(last.arg)}
       /\ \A i \in active : links[i] = currentAlbum
       /\ \A i \in pre.active : i # SelectedLink(last.arg) => i \notin active

\* C10's case: onload has activated the first link, and a second album,
\* whose link is not the first, is selected
C10_Witness ==
    /\ loaded /\ last.op = "selectAlbum" /\ HasOwnProperty(last.arg)
    /\ pre.active = {FirstAlbumLink} /\ FirstAlbumLink # 0
    /\ SelectedLink(last.arg) > 1 /\ active = {SelectedLink(last.arg)}

\* the state before the last handler, as a world a function can be applied to
PreWorld ==
    [currentAlbum |-> pre.currentAlbum, currentIndex |-> pre.currentIndex,
     photoSrc |-> pre.photoSrc, description |-> pre.description,
     counter |-> pre.counter, active |-> pre.active,
     threw |-> FALSE, writes |-> <<>>]

\* every album link of the page names an album of the catalog
AllLinksNameAlbums == \A i \in AlbumLinks : HasOwnProperty(links[i])

\* C11 as stated: after window.onload, the album link marked active is the
\* link of currentAlbum (the first key of the catalog), for every catalog
\* and every order of the album links in the page.  Stated for the runs
\* where onload is the first handler and completes, on catalogs without an
\* empty album and pages where every link names an album and the current
\* album has a link.
C11_ActiveLinkIsCurrentAlbum ==
    ( /\ last.event = "load" /\ ~last.threw
      /\ pre.active = {} /\ pre.currentAlbum = ObjectKeys[1]
      /\ pre.currentIndex = 0 /\ pre.counter = <<>>
      /\ AllAlbumsNonEmpty /\ missing = "none"
      /\ AllLinksNameAlbums /\ SelectedLink(currentAlbum) # 0 )
    => /\ currentAlbum = ObjectKeys[1]
       /\ active = {SelectedLink(currentAlbum)}

\* C12 as stated: with an empty catalog window.onload is a silent no-op: it
\* throws nothing, writes nothing to the page and changes no state.  Stated
\* for the pages that hold every element onload writes.
C12_EmptyCatalogSilentNoOp ==
    (last.event = "load" /\ Len(albums) = 0 /\ missing = "none")
    => /\ ~last.threw
       /\ last.writes = <<>>
       /\ Snapshot(World) = pre

\* what updateView shows of the current state, when the index is in range
ShownSrc == PhotoAt(currentAlbum, currentIndex).src
ShownDescription == PhotoAt(currentAlbum, currentIndex).description
ShownCounter == <<currentIndex + 1, Total>>

\* the last handler ran one of the operations that render
LastRendered ==
    \/ last.op \in NavOps \cup {"updateView", "onload"}
    \/ last.op = "selectAlbum" /\ HasOwnProperty(last.arg)

\* C13 as stated: when exactly one element that updateView or selectAlbum
\* writes is not in the page (#photo, #description, #counter, or the link
\* of the album selected), the operation does not throw, every write to an
\* element that is there is still made, and currentAlbum and currentIndex
\* are what the operation sets.  Stated for catalogs of non-empty albums,
\* where nothing else can fail.
C13_MissingElementSkipped ==
    (LastRendered /\ Len(albums) > 0 /\ AllAlbumsNonEmpty)
    => /\ ~last.threw
       /\ missing # "photo" => photoSrc = ShownSrc
       /\ missing # "description" => description = ShownDescription
       /\ missing # "counter" => counter = ShownCounter
       /\ last.op = "selectAlbum" => (currentAlbum = last.arg /\ currentIndex = 0)

\* image, description and counter show the photo at currentIndex of
\* currentAlbum
ViewInSync ==
    /\ IndexInRange
    /\ photoSrc = ShownSrc
    /\ description = ShownDescription
    /\ counter = ShownCounter

\* C18: the view is never stale.  After window.onload and after every
\* completed nextPhoto, prevPhoto or selectAlbum of a key, in any order,
\* image and description are those of albums[currentAlbum][currentIndex]
\* and the counter is "<currentIndex + 1>/<length of the current album>";
\* and where no handler can throw (every element in the page, at least one
\* album, no empty album) the view stays so from the first render on.
C18_ViewNeverStale ==
    /\ ( /\ \/ last.op \in NavOps \cup {"onload"}
            \/ last.op = "selectAlbum" /\ HasOwnProperty(last.arg)
         /\ ~last.threw )
       => ViewInSync
    /\ ( /\ missing = "none" /\ Len(albums) > 0 /\ AllAlbumsNonEmpty
         /\ counter # <<>> )
       => ViewInSync

\* C18's case: after onload, a selectAlbum of the second album and a
\* prevPhoto that wrapped, the view shows the last photo of that album
C18_Witness ==
    /\ loaded /\ last.op = "prevPhoto" /\ ~last.threw
    /\ Len(albums) = 2 /\ currentAlbum = ObjectKeys[2]
    /\ Total > 1 /\ currentIndex = Total - 1
    /\ photoSrc = <<currentAlbum, Total - 1>> /\ counter = <<Total, Total>>

\* C19: each event runs exactly one operation, to completion, on the state
\* the event before it left: ArrowRight one nextPhoto, ArrowLeft one
\* prevPhoto, a click on an album link one selectAlbum of that link's
\* data-album, and any other key nothing at all.
C19_OneOperationPerEvent ==
    /\ last.event = "ArrowRight"
       => /\ Snapshot(World) = Snapshot(nextPhoto(PreWorld))
          /\ PreTotal > 0 => currentIndex = (pre.currentIndex + 1) % PreTotal
    /\ last.event = "ArrowLeft"
       => /\ Snapshot(World) = Snapshot(prevPhoto(PreWorld))
          /\ PreTotal > 0
             => currentIndex = (pre.currentIndex - 1 + PreTotal) % PreTotal
    /\ last.event = "click"
       => /\ last.link \in AlbumLinks
          /\ Snapshot(World) = Snapshot(selectAlbum(PreWorld, links[last.link]))
          /\ HasOwnProperty(links[last.link])
             => (currentAlbum = links[last.link] /\ currentIndex = 0)
    /\ last.event \in Keys \ {"ArrowRight", "ArrowLeft"}
       => (Snapshot(World) = pre /\ last.writes = <<>>)
    /\ Len(SelectSeq(last.writes, LAMBDA x : x = "counter")) <= 1

\* C19's case: a click on the link of the second album, at an index above
\* 0 of the first, right after an ArrowRight
C19_Witness ==
    /\ Len(albums) = 2
    /\ last.event = "click" /\ pre2.op = "nextPhoto"
    /\ pre.currentAlbum = ObjectKeys[1] /\ pre.currentIndex > 0
    /\ links[last.link] = ObjectKeys[2]
    /\ currentAlbum = ObjectKeys[2] /\ currentIndex = 0

\* ------------------------------------------------- claims: LRUCache
KeysOf(entries) == { entries[i][1] : i \in 1..Len(entries) }

\* the position of key k in a recency order
PosIn(order, k) == CHOOSE i \in 1..Len(order) : order[i] = k

\* of the keys stored, the one whose latest access is the oldest
LeastRecent(entries, order) ==
    CHOOSE k \in KeysOf(entries) :
        \A j \in KeysOf(entries) : PosIn(order, j) <= PosIn(order, k)

\* the entries with key's entry, now <<key, value>>, moved to the front
MovedToFront(entries, key, value) ==
    <<<<key, value>>>> \o SelectSeq(entries, LAMBDA e : e[1] # key)

\* C14: a put of a key that is not in the cache, with the cache holding
\* capacity entries, evicts exactly one key: the stored key whose latest
\* access (a put, or a get that found it) is the oldest.  Every other
\* entry keeps its key and value, and the new key is the most recently used.
C14_EvictsLeastRecentlyUsed ==
    ( /\ cacheLast.op = "put"
      /\ cacheLast.key \notin KeysOf(cachePre.entries)
      /\ Len(cachePre.entries) = capacity )
    => LET lru == LeastRecent(cachePre.entries, cachePre.recency)
       IN  /\ cacheLast.evicted = {lru}
           /\ Entries(Cache) =
                  <<<<cacheLast.key, cacheLast.value>>>> \o
                  SelectSeq(cachePre.entries, LAMBDA e : e[1] # lru)
           /\ MapKeys(Cache) = (KeysOf(cachePre.entries) \ {lru}) \cup {cacheLast.key}
           /\ recency[1] = cacheLast.key

\* C14's case: in a cache of capacity 2 or more, the key evicted is not the
\* one at the back of the order the keys were first used in: a later access
\* had moved an older key up
C14_Witness ==
    /\ cacheLast.op = "put" /\ capacity >= 2
    /\ cacheLast.evicted # {}
    /\ Len(cachePre.entries) = capacity
    /\ Len(cachePre.recency) > capacity
    /\ \E k \in cacheLast.evicted : putValue[k] = NotFound /\ k # cacheLast.key

\* C15: get(key) returns the value of the latest put(key, v) when key has
\* been put and not evicted since, and -1 otherwise.  A miss leaves entries
\* and their order as they were; a hit only moves key's entry to the front.
C15_GetReturnsLatestPut ==
    cacheLast.op = "get"
    => /\ cacheLast.result = putValue[cacheLast.key]
       /\ cacheLast.evicted = {}
       /\ MapKeys(Cache) = KeysOf(cachePre.entries)
       /\ cacheLast.result = NotFound
          => (Entries(Cache) = cachePre.entries /\ recency = cachePre.recency)
       /\ cacheLast.result # NotFound
          => Entries(Cache) =
                 MovedToFront(cachePre.entries, cacheLast.key, cacheLast.result)

\* C15's case: a get finds a key that was at the back and moves it up
C15_Witness ==
    /\ cacheLast.op = "get" /\ cacheLast.result # NotFound
    /\ Len(cachePre.entries) >= 2
    /\ cachePre.entries[Len(cachePre.entries)][1] = cacheLast.key
    /\ Entries(Cache)[1] = <<cacheLast.key, cacheLast.result>>

\* C16: put(key, value) of a key that is in the cache replaces its value and
\* moves it to the front; nothing is evicted and the number of entries does
\* not change, also at capacity.
C16_PutExistingKeyUpdates ==
    (cacheLast.op = "put" /\ cacheLast.key \in KeysOf(cachePre.entries))
    => /\ Entries(Cache) =
              MovedToFront(cachePre.entries, cacheLast.key, cacheLast.value)
       /\ Len(cacheList) = Len(cachePre.entries)
       /\ cacheLast.evicted = {}
       /\ MapKeys(Cache) = KeysOf(cachePre.entries)

\* C16's case: at capacity, the key at the back is put again with another
\* value
C16_Witness ==
    /\ cacheLast.op = "put" /\ capacity >= 2
    /\ Len(cachePre.entries) = capacity
    /\ cachePre.entries[capacity][1] = cacheLast.key
    /\ cachePre.entries[capacity][2] # cacheLast.value
    /\ Len(cacheList) = capacity

\* the keys put so far: get adds no key to recency that was never put
KeysPut == { recency[i] : i \in 1..Len(recency) }

Min(a, b) == IF a <= b THEN a ELSE b

\* C17: the number of entries never exceeds capacity, and it is
\* min(capacity, number of distinct keys put so far).
C17_SizeBoundedByCapacity ==
    capacity >= 1
    => /\ Len(cacheList) <= capacity
       /\ Len(cacheList) = Min(capacity, Cardinality(KeysPut))
       /\ Cardinality(MapKeys(Cache)) = Len(cacheList)

\* C17's case: more distinct keys have been put than the cache holds
C17_Witness ==
    /\ capacity >= 1 /\ Cardinality(KeysPut) > capacity
    /\ Len(cacheList) = capacity /\ cacheLast.op = "get"

\* C20: after every put and get the map and the list agree: no key and no
\* node is in the list twice, the map's keys are the list's keys, and each
\* map entry points to the list node that carries its key.
C20_MapAndListAgree ==
    capacity >= 1
    => /\ \A i, j \in 1..Len(cacheList) :
              cacheList[i] = cacheList[j] => i = j
       /\ DOMAIN nodes = { cacheList[i] : i \in 1..Len(cacheList) }
       /\ \A i, j \in 1..Len(cacheList) :
              nodes[cacheList[i]].key = nodes[cacheList[j]].key => i = j
       /\ MapKeys(Cache) = KeysOf(Entries(Cache))
       /\ \A k \in MapKeys(Cache) :
              /\ cacheMap[k] \in DOMAIN nodes
              /\ nodes[cacheMap[k]].key = k

\* C20's case: a full cache after an eviction, whose front node is not the
\* node allocated first
C20_Witness ==
    /\ capacity >= 2 /\ Len(cacheList) = capacity
    /\ Len(recency) > capacity
    /\ cacheLast.op = "get" /\ cacheLast.result # NotFound
    /\ cacheMap[cacheLast.key] = cacheList[1] /\ cacheList[1] # 1
=============================================================================
